---- MODULE Spec2Model ----
(***************************************************************************)
(* Model of the MilestoneFund Soroban contract (contract/src/lib.rs).      *)
(*                                                                         *)
(* The contract keeps one Project record in instance storage under the key *)
(* DataKey::ProjectInfo.  Every entry point reads the record, validates,   *)
(* and on success writes the whole record back.  Each entry point is a     *)
(* pure operator from (storage, ledger sequence, arguments) to a call      *)
(* outcome [result, storage, events]; each action applies one entry point  *)
(* and records the call in lastCall until the host returns its outcome.    *)
(*                                                                         *)
(* Amounts are u128 in the source and its arithmetic on them is unchecked  *)
(* (+=, + and a doubling).  What an overflow does depends on the build:    *)
(* with overflow checks compiled in it panics, the host traps and the      *)
(* invocation is rolled back; without them the result wraps modulo 2^128.  *)
(* The source tree carries no build manifest, so the model explores both   *)
(* (overflow_checks).  A u128 of the model is the number itself, all 128   *)
(* bits of it, held as limbs because the integers of the model checker end *)
(* at 2^31 - 1.                                                            *)
(* require_auth() is an external capability and is taken to succeed.       *)
(***************************************************************************)
EXTENDS Integers, Sequences, FiniteSets

\* history records which payouts the run has seen so far: whether some
\* claim_refund and whether some release_funds has returned Ok.
\* overflow_checks is the build the deployed contract was compiled with:
\* TRUE when integer overflow panics, FALSE when it wraps.
VARIABLES storage, seq, lastCall, history, overflow_checks

vars == <<storage, seq, lastCall, history, overflow_checks>>

(***************************************************************************)
(* Bounds                                                                  *)
(***************************************************************************)
\* Largest ledger sequence number explored.
MaxSeq == 2
\* Number of distinct backer addresses.
NumBackers == 2
\* Longest milestone list passed to initialize.
MaxMilestones == 2

(***************************************************************************)
(* Natural numbers and u128                                                *)
(*                                                                         *)
(* A u128 is the sequence of its NumLimbs limbs, least significant first,  *)
(* each in 0..LimbBase - 1: two u128 are the same number exactly when they *)
(* are the same sequence.  The mathematical sums of the properties and the *)
(* sums that decide an overflow carry one limb more (the natural numbers   *)
(* below LimbBase^(NumLimbs + 1)); a missing top limb is zero.             *)
(***************************************************************************)
LimbBase == 2^16

NumLimbs == 128 \div 16

\* The limb above the limbs of a u128.
TopLimb(a) == IF Len(a) > NumLimbs THEN a[NumLimbs + 1] ELSE 0

\* The operators below bind their operands to values before they read the
\* limbs: an operand is an expression, evaluated again at each of its uses.

\* a + b limb by limb, each limb with the carry of the limb below.
AddLimbs(a, b) ==
    LET s1 == a[1] + b[1]
        s2 == a[2] + b[2] + (s1 \div LimbBase)
        s3 == a[3] + b[3] + (s2 \div LimbBase)
        s4 == a[4] + b[4] + (s3 \div LimbBase)
        s5 == a[5] + b[5] + (s4 \div LimbBase)
        s6 == a[6] + b[6] + (s5 \div LimbBase)
        s7 == a[7] + b[7] + (s6 \div LimbBase)
        s8 == a[8] + b[8] + (s7 \div LimbBase)
        s9 == TopLimb(a) + TopLimb(b) + (s8 \div LimbBase)
    IN  <<s1 % LimbBase, s2 % LimbBase, s3 % LimbBase, s4 % LimbBase,
          s5 % LimbBase, s6 % LimbBase, s7 % LimbBase, s8 % LimbBase, s9>>

\* x + y over the natural numbers.
NatAdd(x, y) == CHOOSE sum \in {AddLimbs(a, b) : <<a, b>> \in {<<x, y>>}} : TRUE

NatEq(x, y) ==
    \E <<a, b>> \in {<<x, y>>} :
        /\ \A i \in 1..NumLimbs : a[i] = b[i]
        /\ TopLimb(a) = TopLimb(b)

NatLess(x, y) ==
    \E <<a, b>> \in {<<x, y>>} :
        \/ TopLimb(a) < TopLimb(b)
        \/ /\ TopLimb(a) = TopLimb(b)
           /\ \E i \in 1..NumLimbs :
                  /\ a[i] < b[i]
                  /\ \A j \in (i + 1)..NumLimbs : a[j] = b[j]

NatLeq(a, b) == ~NatLess(b, a)

\* The u128 of a number n below 2^31.
U128(n) == <<n % LimbBase, n \div LimbBase, 0, 0, 0, 0, 0, 0>>

\* u128::MAX = 2^128 - 1.
U128Max ==
    <<LimbBase - 1, LimbBase - 1, LimbBase - 1, LimbBase - 1,
      LimbBase - 1, LimbBase - 1, LimbBase - 1, LimbBase - 1>>

\* The natural number n is below 2^128.
fits_u128(n) == TopLimb(n) = 0

\* n modulo 2^128.
truncate_u128(n) == SubSeq(n, 1, NumLimbs)

\* a + b as the build without overflow checks computes it.
wrapping_add(a, b) == truncate_u128(NatAdd(a, b))

\* a + b does not fit a u128.
add_overflows(a, b) == ~fits_u128(NatAdd(a, b))

(***************************************************************************)
(* Input domains                                                           *)
(***************************************************************************)
Backers == 1..NumBackers
Creators == {0}
Tokens == {0}
Titles == {"m"}
\* 2^128 - 50 = u128::MAX - 49: an amount so large that adding an honest
\* amount to it overflows.
NearOverflow == <<LimbBase - 50>> \o Tail(U128Max)
\* No goal, the goal an overflowing sum wraps to (2^128 - 50 + 150 = 2^128 +
\* 100), and two honest totals: 150 is met by two contributions and 300 by
\* three, which two backers share unequally.
GoalChoices == {U128(0), U128(100), U128(150), U128(300)}
\* A deadline no ledger sequence precedes, and the last deadline the ledger
\* can pass within the explored sequence numbers.
DeadlineChoices == {0, MaxSeq - 1}
MilestoneAmounts == {U128(150), NearOverflow}
\* Vec<(String, u128)> arguments of initialize.
MilestoneLists == UNION {[1..n -> Titles \X MilestoneAmounts] : n \in 0..MaxMilestones}
\* milestone_index arguments (0-based, one past the longest list included).
IndexChoices == 0..MaxMilestones
\* The amount the caller of fund means to contribute.  The entry point has
\* no parameter for it (lib.rs:142); it is recorded with the call only.
RequestedAmounts == {U128(50), U128(100)}

(***************************************************************************)
(* soroban_sdk::Map and instance storage                                   *)
(***************************************************************************)
EmptyMap == [k \in {} |-> 0]

MapGetOr(m, k, d) == IF k \in DOMAIN m THEN m[k] ELSE d

MapSet(m, k, v) == [x \in (DOMAIN m) \cup {k} |-> IF x = k THEN v ELSE m[x]]

\* The sum of the values of m, over the natural numbers.
RECURSIVE SumMap(_)
SumMap(m) ==
    IF DOMAIN m = {} THEN U128(0)
    ELSE LET k == CHOOSE x \in DOMAIN m : TRUE
         IN NatAdd(m[k], SumMap([x \in (DOMAIN m) \ {k} |-> m[x]]))

ProjectInfo == "ProjectInfo"

EmptyStorage == [k \in {} |-> 0]

has_project(st) == ProjectInfo \in DOMAIN st

storage_set(st, project) == [k \in (DOMAIN st) \cup {ProjectInfo} |-> project]

(***************************************************************************)
(* Call outcomes                                                           *)
(***************************************************************************)
Ok(st, evs) == [result |-> "Ok", storage |-> st, events |-> evs]

Err(e, st) == [result |-> e, storage |-> st, events |-> << >>]

\* A panic inside the contract: the host traps, the invoker gets a host
\* error (none of the contract's Error codes) and every write of the
\* invocation is rolled back.
Panic(st) == [result |-> "Panic", storage |-> st, events |-> << >>]

\* get_project: the stored record, or ProjectNotInitialized.
get_project(st) ==
    IF has_project(st)
    THEN [result |-> "Ok", project |-> st[ProjectInfo]]
    ELSE [result |-> "ProjectNotInitialized", project |-> EmptyMap]

(***************************************************************************)
(* initialize                                                              *)
(***************************************************************************)
\* The accumulator of the loop over the milestones, started at total, in the
\* build where += wraps.
RECURSIVE total_after(_, _)
total_after(total, milestones) ==
    IF Len(milestones) = 0 THEN total
    ELSE total_after(wrapping_add(total, milestones[1][2]), Tail(milestones))

total_milestone_amount(milestones) == total_after(U128(0), milestones)

\* Some += of the loop over the milestones, started at total, overflows.
RECURSIVE total_overflows_after(_, _)
total_overflows_after(total, milestones) ==
    IF Len(milestones) = 0 THEN FALSE
    ELSE \/ add_overflows(total, milestones[1][2])
         \/ total_overflows_after(wrapping_add(total, milestones[1][2]),
                                  Tail(milestones))

total_milestone_overflows(milestones) == total_overflows_after(U128(0), milestones)

milestone_vec(milestones) ==
    [i \in 1..Len(milestones) |->
        [title |-> milestones[i][1],
         amount_to_release |-> milestones[i][2],
         is_complete |-> FALSE,
         votes |-> EmptyMap]]

new_project(creator, token, goal, deadline, milestones) ==
    [creator |-> creator,
     token |-> token,
     goal |-> goal,
     raised |-> U128(0),
     deadline |-> deadline,
     milestones |-> milestone_vec(milestones),
     backers |-> EmptyMap,
     goal_met |-> FALSE]

\* Faulty variant: the already-initialized guard is missing.
initialize_already_unchecked(st) == FALSE

initialize_already(st) == has_project(st)

initialize_mismatch(milestones, goal) == total_milestone_amount(milestones) # goal

\* Faulty variant: the arguments are validated before the stored record is looked for.
initialize_validate_reordered(st, now, checks, goal, deadline, milestones) ==
    IF deadline <= now THEN "DeadlineMustBeInFuture"
    ELSE IF goal = U128(0) THEN "GoalMustBePositive"
    ELSE IF Len(milestones) = 0 THEN "MilestoneListEmpty"
    ELSE IF checks /\ total_milestone_overflows(milestones) THEN "Panic"
    ELSE IF total_milestone_amount(milestones) # goal THEN "MilestoneAmountsMismatchGoal"
    ELSE IF has_project(st) THEN "ProjectAlreadyInitialized"
    ELSE "Ok"

\* The validations of initialize in source order; "Ok" when all pass.  The
\* loop that sums the amounts runs between the empty-list check and the
\* comparison with the goal, and panics there on overflow when the build
\* checks for it (checks).
initialize_validate(st, now, checks, goal, deadline, milestones) ==
    IF initialize_already(st) THEN "ProjectAlreadyInitialized"
    ELSE IF deadline <= now THEN "DeadlineMustBeInFuture"
    ELSE IF goal = U128(0) THEN "GoalMustBePositive"
    ELSE IF Len(milestones) = 0 THEN "MilestoneListEmpty"
    ELSE IF checks /\ total_milestone_overflows(milestones) THEN "Panic"
    ELSE IF initialize_mismatch(milestones, goal) THEN "MilestoneAmountsMismatchGoal"
    ELSE "Ok"

initialize(st, now, checks, creator, token, goal, deadline, milestones) ==
    LET verdict == initialize_validate(st, now, checks, goal, deadline, milestones)
    IN  IF verdict = "Panic" THEN Panic(st)
        ELSE IF verdict # "Ok" THEN Err(verdict, st)
        ELSE Ok(storage_set(st, new_project(creator, token, goal, deadline, milestones)),
                << >>)

(***************************************************************************)
(* fund                                                                    *)
(***************************************************************************)
\* The placeholder amount every fund call credits.
amount_to_fund == U128(100)

fund_raised(project, amount) == wrapping_add(project.raised, amount)

\* One of the two additions of fund overflows.
fund_overflows(project, backer, amount) ==
    \/ add_overflows(project.raised, amount)
    \/ add_overflows(MapGetOr(project.backers, backer, U128(0)), amount)

\* Faulty variant: the backer's entry is overwritten instead of added to.
fund_backers_overwrite(project, backer, amount) ==
    MapSet(project.backers, backer, amount)

fund_backers(project, backer, amount) ==
    LET current_funding == MapGetOr(project.backers, backer, U128(0))
    IN MapSet(project.backers, backer, wrapping_add(current_funding, amount))

\* Faulty variant: the goal counts as met only when exceeded.
fund_goal_met_strict(project, raised) ==
    IF NatLess(project.goal, raised) THEN TRUE ELSE project.goal_met

fund_goal_met(project, raised) ==
    IF NatLeq(project.goal, raised) THEN TRUE ELSE project.goal_met

\* Faulty variant: funding stays open after the goal is met.
fund_closed_unchecked(project) == FALSE

fund_closed(project) == project.goal_met

\* Faulty variant: funding closes one sequence number late.
fund_deadline_passed_late(project, now) == now > project.deadline + 1

\* Faulty variant: funding never closes on the deadline.
fund_deadline_passed_unchecked(project, now) == FALSE

fund_deadline_passed(project, now) == now > project.deadline

fund(st, now, checks, backer) ==
    LET got == get_project(st)
        project == got.project
    IN  IF got.result # "Ok" THEN Err(got.result, st)
        ELSE IF fund_closed(project) THEN Err("GoalAlreadyMet", st)
        ELSE IF fund_deadline_passed(project, now) THEN Err("DeadlinePassed", st)
        ELSE IF amount_to_fund = U128(0) THEN Err("FundingAmountTooLow", st)
        ELSE IF checks /\ fund_overflows(project, backer, amount_to_fund)
             THEN Panic(st)
        ELSE LET raised == fund_raised(project, amount_to_fund)
                 updated == [project EXCEPT
                               !.raised = raised,
                               !.backers = fund_backers(project, backer, amount_to_fund),
                               !.goal_met = fund_goal_met(project, raised)]
             IN Ok(storage_set(st, updated),
                   <<[topic |-> "fund", address |-> backer, data |-> amount_to_fund]>>)

(***************************************************************************)
(* vote                                                                    *)
(***************************************************************************)
\* Vec::get with a 0-based u32 index; the sequence of the model is 1-based.
valid_index(project, milestone_index) ==
    milestone_index + 1 \in 1..Len(project.milestones)

vote_goal_not_met(project) == ~project.goal_met

\* Faulty variant: any address may vote.
vote_not_a_backer_unchecked(project, backer) == FALSE

vote_not_a_backer(project, backer) == backer \notin DOMAIN project.backers

\* Faulty variant: a complete milestone still takes votes.
vote_already_completed_unchecked(milestone) == FALSE

vote_already_completed(milestone) == milestone.is_complete

vote_already_voted(milestone, backer) == backer \in DOMAIN milestone.votes

vote_record(milestone, backer) == MapSet(milestone.votes, backer, TRUE)

\* Faulty variant: the vote is written before the caller is looked up among
\* the backers.
vote_write_first(st, backer, milestone_index) ==
    LET got == get_project(st)
        project == got.project
    IN  IF got.result # "Ok" THEN Err(got.result, st)
        ELSE IF vote_goal_not_met(project) THEN Err("GoalNotMet", st)
        ELSE IF ~valid_index(project, milestone_index)
             THEN Err("MilestoneInvalidIndex", st)
        ELSE LET milestone == project.milestones[milestone_index + 1]
                 voted == [milestone EXCEPT !.votes = vote_record(milestone, backer)]
                 updated == [project EXCEPT !.milestones[milestone_index + 1] = voted]
                 written == storage_set(st, updated)
             IN  IF vote_not_a_backer(project, backer) THEN Err("NotABacker", written)
                 ELSE IF vote_already_completed(milestone)
                 THEN Err("MilestoneAlreadyCompleted", written)
                 ELSE IF vote_already_voted(milestone, backer)
                 THEN Err("AlreadyVoted", written)
                 ELSE Ok(written, << >>)

vote(st, backer, milestone_index) ==
    LET got == get_project(st)
        project == got.project
    IN  IF got.result # "Ok" THEN Err(got.result, st)
        ELSE IF vote_goal_not_met(project) THEN Err("GoalNotMet", st)
        ELSE IF vote_not_a_backer(project, backer) THEN Err("NotABacker", st)
        ELSE IF ~valid_index(project, milestone_index)
             THEN Err("MilestoneInvalidIndex", st)
        ELSE LET milestone == project.milestones[milestone_index + 1]
             IN  IF vote_already_completed(milestone)
                 THEN Err("MilestoneAlreadyCompleted", st)
                 ELSE IF vote_already_voted(milestone, backer) THEN Err("AlreadyVoted", st)
                 ELSE LET voted == [milestone EXCEPT
                                      !.votes = vote_record(milestone, backer)]
                          updated == [project EXCEPT
                                        !.milestones[milestone_index + 1] = voted]
                      IN Ok(storage_set(st, updated), << >>)

(***************************************************************************)
(* release_funds                                                           *)
(***************************************************************************)
\* Sum of backers[b] over the keys b of the milestone's vote map; the voted
\* value itself is not read (lib.rs:246).
voters_amounts(project, milestone) ==
    [b \in DOMAIN milestone.votes |-> MapGetOr(project.backers, b, U128(0))]

total_vote_weight(project, milestone) ==
    truncate_u128(SumMap(voters_amounts(project, milestone)))

\* Faulty variant: exactly half of the raised funds approves.
not_yet_approved_below(weight, raised) == NatLess(wrapping_add(weight, weight), raised)

\* total_vote_weight * 2 <= project.raised
not_yet_approved(weight, raised) == NatLeq(wrapping_add(weight, weight), raised)

\* The sum of the vote weights or its doubling overflows.  The amounts are
\* not negative, so some += of the loop overflows exactly when the whole
\* sum does.
release_overflows(project, milestone) ==
    \/ ~fits_u128(SumMap(voters_amounts(project, milestone)))
    \/ add_overflows(total_vote_weight(project, milestone),
                     total_vote_weight(project, milestone))

release_goal_not_met(project) == ~project.goal_met

\* Faulty variant: a completed milestone can be released again.
release_already_completed_unchecked(milestone) == FALSE

release_already_completed(milestone) == milestone.is_complete

release_funds(st, checks, milestone_index) ==
    LET got == get_project(st)
        project == got.project
    IN  IF got.result # "Ok" THEN Err(got.result, st)
        ELSE IF release_goal_not_met(project) THEN Err("GoalNotMet", st)
        ELSE IF ~valid_index(project, milestone_index)
             THEN Err("MilestoneInvalidIndex", st)
        ELSE LET milestone == project.milestones[milestone_index + 1]
             IN  IF release_already_completed(milestone)
                 THEN Err("MilestoneAlreadyCompleted", st)
                 ELSE IF checks /\ release_overflows(project, milestone)
                 THEN Panic(st)
                 ELSE IF not_yet_approved(total_vote_weight(project, milestone),
                                          project.raised)
                 THEN Err("MilestoneNotYetApproved", st)
                 ELSE LET done == [milestone EXCEPT !.is_complete = TRUE]
                          updated == [project EXCEPT
                                        !.milestones[milestone_index + 1] = done]
                      IN Ok(storage_set(st, updated),
                            <<[topic |-> "release", address |-> project.creator,
                               data |-> done.amount_to_release]>>)

(***************************************************************************)
(* claim_refund                                                            *)
(***************************************************************************)
\* Faulty variant: refunds open at the deadline itself.
refunds_not_available_early(project, now) == now < project.deadline \/ project.goal_met

refunds_not_available(project, now) == now <= project.deadline \/ project.goal_met

\* The zeroing of the backer's amount is commented out in the source
\* (lib.rs:295-301): a successful claim writes nothing.
claim_refund(st, now, backer) ==
    LET got == get_project(st)
        project == got.project
    IN  IF got.result # "Ok" THEN Err(got.result, st)
        ELSE IF refunds_not_available(project, now) THEN Err("RefundsNotAvailable", st)
        ELSE IF backer \notin DOMAIN project.backers THEN Err("NoRefundsToClaim", st)
        ELSE LET amount_to_refund == project.backers[backer]
             IN  IF amount_to_refund = U128(0) THEN Err("NoRefundsToClaim", st)
                 ELSE Ok(st, << >>)

(***************************************************************************)
(* get_backer_info                                                         *)
(***************************************************************************)
\* Faulty variant: an address without an entry is an error instead of 0.
get_backer_info_strict(st, backer) ==
    LET got == get_project(st)
    IN  IF got.result # "Ok" THEN [result |-> got.result, value |-> U128(0)]
        ELSE IF backer \notin DOMAIN got.project.backers
        THEN [result |-> "NotABacker", value |-> U128(0)]
        ELSE [result |-> "Ok", value |-> got.project.backers[backer]]

get_backer_info(st, backer) ==
    LET got == get_project(st)
    IN  IF got.result # "Ok" THEN [result |-> got.result, value |-> U128(0)]
        ELSE [result |-> "Ok", value |-> MapGetOr(got.project.backers, backer, U128(0))]

(***************************************************************************)
(* State machine                                                           *)
(***************************************************************************)
\* The call in flight: the entry point invoked, its arguments and the outcome
\* the host returns to the invoker.  NoCall between invocations.
NoCall ==
    [op |-> "none", backer |-> 0, index |-> 0, amount |-> U128(0),
     goal |-> U128(0), deadline |-> 0, milestones |-> << >>,
     result |-> "none", value |-> U128(0), events |-> << >>]

\* The host runs one invocation at a time, to completion.
Idle == lastCall = NoCall

Init ==
    /\ storage = EmptyStorage
    /\ seq = 0
    /\ lastCall = NoCall
    /\ history = [refunded |-> FALSE, released |-> FALSE]
    /\ overflow_checks \in BOOLEAN

Initialize ==
    /\ Idle
    /\ \E creator \in Creators, token \in Tokens, goal \in GoalChoices,
          deadline \in DeadlineChoices, milestones \in MilestoneLists :
           LET r == initialize(storage, seq, overflow_checks, creator, token, goal, deadline, milestones)
           IN  /\ storage' = r.storage
               /\ lastCall' = [NoCall EXCEPT !.op = "initialize", !.goal = goal,
                                             !.deadline = deadline,
                                             !.milestones = milestones,
                                             !.result = r.result, !.events = r.events]
               /\ UNCHANGED <<seq, history, overflow_checks>>

Fund ==
    /\ Idle
    /\ \E backer \in Backers, amount \in RequestedAmounts :
           LET r == fund(storage, seq, overflow_checks, backer)
           IN  /\ storage' = r.storage
               /\ lastCall' = [NoCall EXCEPT !.op = "fund", !.backer = backer,
                                             !.amount = amount,
                                             !.result = r.result, !.events = r.events]
               /\ UNCHANGED <<seq, history, overflow_checks>>

Vote ==
    /\ Idle
    /\ \E backer \in Backers, milestone_index \in IndexChoices :
           LET r == vote(storage, backer, milestone_index)
           IN  /\ storage' = r.storage
               /\ lastCall' = [NoCall EXCEPT !.op = "vote", !.backer = backer,
                                             !.index = milestone_index,
                                             !.result = r.result, !.events = r.events]
               /\ UNCHANGED <<seq, history, overflow_checks>>

ReleaseFunds ==
    /\ Idle
    /\ \E milestone_index \in IndexChoices :
           LET r == release_funds(storage, overflow_checks, milestone_index)
           IN  /\ storage' = r.storage
               /\ lastCall' = [NoCall EXCEPT !.op = "release_funds",
                                             !.index = milestone_index,
                                             !.result = r.result, !.events = r.events]
               /\ history' = [history EXCEPT
                              !.released = @ \/ r.result = "Ok"]
               /\ UNCHANGED <<seq, overflow_checks>>

ClaimRefund ==
    /\ Idle
    /\ \E backer \in Backers :
           LET r == claim_refund(storage, seq, backer)
           IN  /\ storage' = r.storage
               /\ lastCall' = [NoCall EXCEPT !.op = "claim_refund", !.backer = backer,
                                             !.result = r.result, !.events = r.events]
               /\ history' = [history EXCEPT
                              !.refunded = @ \/ r.result = "Ok"]
               /\ UNCHANGED <<seq, overflow_checks>>

GetBackerInfo ==
    /\ Idle
    /\ \E backer \in Backers :
           LET r == get_backer_info(storage, backer)
           IN  /\ lastCall' = [NoCall EXCEPT !.op = "get_backer_info",
                                             !.backer = backer,
                                             !.result = r.result, !.value = r.value]
               /\ UNCHANGED <<storage, seq, history, overflow_checks>>

\* The invocation ends: its outcome has been returned to the invoker.
Return ==
    /\ ~Idle
    /\ lastCall' = NoCall
    /\ UNCHANGED <<storage, seq, history, overflow_checks>>

\* The host advances the ledger sequence between invocations.
Tick ==
    /\ Idle
    /\ seq < MaxSeq
    /\ seq' = seq + 1
    /\ UNCHANGED <<storage, lastCall, history, overflow_checks>>

Next ==
    \/ Initialize
    \/ Fund
    \/ Vote
    \/ ReleaseFunds
    \/ ClaimRefund
    \/ GetBackerInfo
    \/ Return
    \/ Tick

Spec == Init /\ [][Next]_vars

(***************************************************************************)
(* Shorthands for the stored project                                       *)
(***************************************************************************)
Initialized == has_project(storage)

Project == storage[ProjectInfo]

(***************************************************************************)
(* Helpers of the properties                                               *)
(***************************************************************************)
\* Sum of amount_to_release over a stored milestone vector.
SumAmounts(ms) == SumMap([i \in 1..Len(ms) |-> ms[i].amount_to_release])

\* Sum of backers[b] over the backers b whose vote entry on m is a yes.
YesWeight(project, m) ==
    SumMap([b \in {x \in DOMAIN m.votes : m.votes[x] = TRUE} |->
              MapGetOr(project.backers, b, U128(0))])

\* weight * 2 > raised, over the natural numbers.
Majority(weight, raised) == NatLess(raised, NatAdd(weight, weight))

\* Sum of the amounts of a milestone list passed to initialize.
ArgumentSum(milestones) ==
    SumMap([i \in 1..Len(milestones) |-> milestones[i][2]])

Succeeded(op) == lastCall.op = op /\ lastCall.result = "Ok"

(***************************************************************************)
(* C1  No double refund.  After a successful claim_refund(b) the recorded  *)
(* contribution of b is zero (so that a later claim by b finds nothing to  *)
(* refund and fails with NoRefundsToClaim).                                *)
(***************************************************************************)
C1_RefundZeroesContribution ==
    Succeeded("claim_refund") =>
        /\ get_backer_info(storage, lastCall.backer).value = U128(0)
        /\ claim_refund(storage, seq, lastCall.backer).result = "NoRefundsToClaim"

(***************************************************************************)
(* C2  Funding credits the requested amount.  Every successful fund call   *)
(* adds exactly the amount its caller requested to raised and to the       *)
(* caller's entry of backers.                                              *)
(***************************************************************************)
C2_FundCreditsRequestedAmount ==
    [][(lastCall'.op = "fund" /\ lastCall'.result = "Ok") =>
          /\ NatEq(Project'.raised, NatAdd(Project.raised, lastCall'.amount))
          /\ NatEq(MapGetOr(Project'.backers, lastCall'.backer, U128(0)),
                   NatAdd(MapGetOr(Project.backers, lastCall'.backer, U128(0)),
                          lastCall'.amount))]_vars

(***************************************************************************)
(* C3  raised equals the sum of the values of the backers map in every     *)
(* state of an initialized project, in particular in every state reached   *)
(* after a successful fund call.                                           *)
(***************************************************************************)
C3_RaisedIsSumOfBackers ==
    Initialized => NatEq(Project.raised, SumMap(Project.backers))

C3_Witness ==
    /\ Succeeded("fund")
    /\ Project.raised = U128(200)
    /\ Cardinality(DOMAIN Project.backers) = 1

(***************************************************************************)
(* C4  In every state of an initialized project goal_met is true exactly   *)
(* when raised >= goal: the flag turns true on the fund call that brings   *)
(* raised to the goal, not before and not after.                           *)
(***************************************************************************)
C4_GoalMetIffGoalReached ==
    Initialized => (Project.goal_met <=> NatLeq(Project.goal, Project.raised))

C4_Witness ==
    /\ Succeeded("fund")
    /\ Project.goal_met
    /\ Project.raised = Project.goal

(***************************************************************************)
(* C5  goal_met is monotonic: no step of any operation takes a project     *)
(* whose goal_met is true to a state where it is not.                      *)
(***************************************************************************)
C5_GoalMetMonotonic ==
    [][(Initialized /\ Project.goal_met) => (Initialized' /\ Project'.goal_met)]_vars

C5_Witness ==
    /\ Initialized
    /\ Project.goal_met
    /\ lastCall.op = "initialize"
    /\ lastCall.deadline > seq
    /\ lastCall.goal # U128(0)
    /\ Len(lastCall.milestones) > 0
    /\ total_milestone_amount(lastCall.milestones) = lastCall.goal

(***************************************************************************)
(* C6  No funding after close: a fund call made while goal_met is true     *)
(* fails with GoalAlreadyMet, one made while goal_met is false and the     *)
(* ledger sequence exceeds the deadline fails with DeadlinePassed, and in  *)
(* both cases the stored project (raised, backers) is unchanged.           *)
(***************************************************************************)
C6_NoFundingAfterClose ==
    [][(lastCall'.op = "fund" /\ Initialized) =>
          /\ Project.goal_met =>
                (lastCall'.result = "GoalAlreadyMet" /\ storage' = storage)
          /\ (~Project.goal_met /\ seq > Project.deadline) =>
                (lastCall'.result = "DeadlinePassed" /\ storage' = storage)]_vars

C6_Witness ==
    /\ Initialized
    /\ lastCall.op = "fund"
    /\ lastCall.result = "DeadlinePassed"
    /\ Project.raised # U128(0)

(***************************************************************************)
(* C7  Initialize-once: every initialize call on an initialized contract   *)
(* fails with ProjectAlreadyInitialized, whatever its arguments, and       *)
(* leaves the stored project unchanged.                                    *)
(***************************************************************************)
C7_InitializeOnce ==
    [][(lastCall'.op = "initialize" /\ Initialized) =>
          (lastCall'.result = "ProjectAlreadyInitialized" /\ storage' = storage)]_vars

C7_Witness ==
    /\ Initialized
    /\ Project.raised # U128(0)
    /\ lastCall.op = "initialize"
    /\ lastCall.result = "ProjectAlreadyInitialized"
    /\ lastCall.deadline <= seq

(***************************************************************************)
(* C8  Goal-sum invariant: initialize never accepts a milestone list whose *)
(* amounts do not sum to goal and, on an otherwise acceptable call (no     *)
(* project stored, deadline in the future, goal positive), rejects a       *)
(* non-empty such list with MilestoneAmountsMismatchGoal; the amounts of   *)
(* the stored milestones sum to goal in every state; and no operation      *)
(* changes goal or a milestone amount.  (The empty list, which the check   *)
(* before the sum rejects with MilestoneListEmpty, is left out of the      *)
(* statement.)  The sums are the mathematical ones.                        *)
(***************************************************************************)
C8_GoalSumInvariant ==
    /\ [](Initialized => NatEq(SumAmounts(Project.milestones), Project.goal))
    /\ [][/\ (/\ lastCall'.op = "initialize"
              /\ ~NatEq(ArgumentSum(lastCall'.milestones), lastCall'.goal)) =>
                 /\ lastCall'.result # "Ok"
                 /\ storage' = storage
                 /\ (/\ ~Initialized
                     /\ lastCall'.deadline > seq
                     /\ lastCall'.goal # U128(0)
                     /\ Len(lastCall'.milestones) > 0) =>
                        lastCall'.result = "MilestoneAmountsMismatchGoal"
          /\ Initialized =>
                 /\ Initialized'
                 /\ Project'.goal = Project.goal
                 /\ Len(Project'.milestones) = Len(Project.milestones)
                 /\ \A i \in 1..Len(Project.milestones) :
                        Project'.milestones[i].amount_to_release
                          = Project.milestones[i].amount_to_release]_vars

(***************************************************************************)
(* C9  As claimed: release_funds succeeds only if goal_met is true and the *)
(* yes-vote weight of the milestone satisfies weight * 2 > raised; with a  *)
(* valid index and an incomplete milestone, a weight with weight * 2 <=    *)
(* raised (exactly half included) fails with MilestoneNotYetApproved and   *)
(* the milestone stays incomplete.                                         *)
(***************************************************************************)
C9_MajorityThreshold ==
    [][(lastCall'.op = "release_funds" /\ Initialized) =>
          LET i == lastCall'.index + 1
              valid == i \in 1..Len(Project.milestones)
          IN  /\ lastCall'.result = "Ok" =>
                    /\ Project.goal_met
                    /\ valid
                    /\ Majority(YesWeight(Project, Project.milestones[i]), Project.raised)
              /\ (/\ valid
                  /\ ~Project.milestones[i].is_complete
                  /\ ~Majority(YesWeight(Project, Project.milestones[i]), Project.raised)) =>
                    /\ lastCall'.result = "MilestoneNotYetApproved"
                    /\ storage' = storage
                    /\ ~Project'.milestones[i].is_complete]_vars

(***************************************************************************)
(* C9 as amended: release_funds succeeds only if goal_met is true and the  *)
(* yes-vote weight of the milestone satisfies weight * 2 > raised; while   *)
(* goal_met is false it fails with GoalNotMet, whatever the votes; on a    *)
(* goal-met project with a valid index and an incomplete milestone, a      *)
(* weight with weight * 2 <= raised (exactly half included) fails with     *)
(* MilestoneNotYetApproved; in both cases nothing is written and the       *)
(* milestone stays incomplete.                                             *)
(***************************************************************************)
C9_MajorityThresholdOnceGoalMet ==
    [][(lastCall'.op = "release_funds" /\ Initialized) =>
          LET i == lastCall'.index + 1
              valid == i \in 1..Len(Project.milestones)
          IN  /\ lastCall'.result = "Ok" =>
                    /\ Project.goal_met
                    /\ valid
                    /\ Majority(YesWeight(Project, Project.milestones[i]), Project.raised)
              /\ ~Project.goal_met =>
                    /\ lastCall'.result = "GoalNotMet"
                    /\ storage' = storage
              /\ (/\ Project.goal_met
                  /\ valid
                  /\ ~Project.milestones[i].is_complete
                  /\ ~Majority(YesWeight(Project, Project.milestones[i]), Project.raised)) =>
                    /\ lastCall'.result = "MilestoneNotYetApproved"
                    /\ storage' = storage
                    /\ ~Project'.milestones[i].is_complete]_vars

C9_Witness ==
    /\ Initialized
    /\ lastCall.op = "release_funds"
    /\ lastCall.result = "MilestoneNotYetApproved"
    /\ valid_index(Project, lastCall.index)
    /\ LET weight == YesWeight(Project, Project.milestones[lastCall.index + 1])
       IN NatEq(NatAdd(weight, weight), Project.raised)

(***************************************************************************)
(* C10  Each milestone is released at most once: a milestone whose         *)
(* is_complete is true keeps it true in every step, and a release_funds    *)
(* call on its index fails with MilestoneAlreadyCompleted, writes nothing  *)
(* and emits no release event.                                             *)
(***************************************************************************)
C10_ReleasedAtMostOnce ==
    [][Initialized =>
          \A i \in 1..Len(Project.milestones) :
              Project.milestones[i].is_complete =>
                  /\ Initialized'
                  /\ Project'.milestones[i].is_complete
                  /\ (lastCall'.op = "release_funds" /\ lastCall'.index = i - 1) =>
                        /\ lastCall'.result = "MilestoneAlreadyCompleted"
                        /\ Len(lastCall'.events) = 0
                        /\ storage' = storage]_vars

C10_Witness ==
    /\ Initialized
    /\ lastCall.op = "release_funds"
    /\ lastCall.result = "MilestoneAlreadyCompleted"
    /\ Len(Project.milestones) = 2
    /\ \E i \in 1..2 : ~Project.milestones[i].is_complete

(***************************************************************************)
(* C11  Voting gating: on an initialized project vote(b, i) fails with     *)
(* GoalNotMet whenever goal_met is false; with goal_met true it fails with *)
(* NotABacker when b is not a key of backers; a vote by a backer who       *)
(* already has an entry on the (valid, incomplete) milestone fails with    *)
(* AlreadyVoted and writes nothing; and a successful vote adds exactly the *)
(* caller's entry, which was absent before.                                *)
(***************************************************************************)
C11_VotingGating ==
    [][(lastCall'.op = "vote" /\ Initialized) =>
          LET b == lastCall'.backer
              i == lastCall'.index + 1
              valid == i \in 1..Len(Project.milestones)
          IN  /\ ~Project.goal_met => lastCall'.result = "GoalNotMet"
              /\ (Project.goal_met /\ b \notin DOMAIN Project.backers) =>
                    lastCall'.result = "NotABacker"
              /\ (/\ Project.goal_met
                  /\ valid
                  /\ ~Project.milestones[i].is_complete
                  /\ b \in DOMAIN Project.milestones[i].votes) =>
                    (lastCall'.result = "AlreadyVoted" /\ storage' = storage)
              /\ lastCall'.result = "Ok" =>
                    /\ valid
                    /\ b \notin DOMAIN Project.milestones[i].votes
                    /\ DOMAIN Project'.milestones[i].votes
                         = DOMAIN Project.milestones[i].votes \cup {b}]_vars

C11_Witness ==
    /\ Initialized
    /\ lastCall.op = "vote"
    /\ lastCall.result = "AlreadyVoted"
    /\ Cardinality(DOMAIN Project.backers) = 2

(***************************************************************************)
(* C12  Refund availability: on an initialized project claim_refund(b)     *)
(* fails with RefundsNotAvailable whenever the ledger sequence is <=       *)
(* deadline or goal_met is true; otherwise it fails with NoRefundsToClaim  *)
(* if b has no entry or a zero recorded contribution, and succeeds if b    *)
(* has a nonzero recorded contribution.  It succeeds in no other state.    *)
(***************************************************************************)
C12_RefundAvailability ==
    [][(lastCall'.op = "claim_refund" /\ Initialized) =>
          lastCall'.result =
              IF seq <= Project.deadline \/ Project.goal_met
              THEN "RefundsNotAvailable"
              ELSE IF MapGetOr(Project.backers, lastCall'.backer, U128(0)) = U128(0)
              THEN "NoRefundsToClaim"
              ELSE "Ok"]_vars

C12_Witness ==
    /\ Succeeded("claim_refund")
    /\ seq > Project.deadline
    /\ ~Project.goal_met
    /\ Project.backers[lastCall.backer] # U128(0)

(***************************************************************************)
(* C13  As claimed: get_backer_info(backer) never returns an error, in any *)
(* state, including before initialize has succeeded; it returns the        *)
(* backer's recorded contribution, or 0 if the backer never contributed.   *)
(***************************************************************************)
C13_BackerInfoNeverErrs ==
    lastCall.op = "get_backer_info" =>
        /\ lastCall.result = "Ok"
        /\ lastCall.value =
              IF Initialized THEN MapGetOr(Project.backers, lastCall.backer, U128(0))
              ELSE U128(0)

(***************************************************************************)
(* C13 as amended: before initialize has succeeded get_backer_info fails   *)
(* with ProjectNotInitialized; in every state of an initialized project it *)
(* never returns an error and returns the backer's recorded contribution,  *)
(* or 0 if the backer never contributed.                                   *)
(***************************************************************************)
C13_BackerInfoOnceInitialized ==
    lastCall.op = "get_backer_info" =>
        IF Initialized
        THEN /\ lastCall.result = "Ok"
             /\ lastCall.value = MapGetOr(Project.backers, lastCall.backer, U128(0))
        ELSE lastCall.result = "ProjectNotInitialized"

C13_Witness ==
    /\ Initialized
    /\ lastCall.op = "get_backer_info"
    /\ lastCall.result = "Ok"
    /\ lastCall.value = U128(0)
    /\ Project.raised # U128(0)

(***************************************************************************)
(* C14  Failure atomicity: whenever initialize, fund, vote, release_funds  *)
(* or claim_refund returns an error, the stored Project record (or its     *)
(* absence) after the call is identical to the one before the call.        *)
(***************************************************************************)
C14_FailureAtomicity ==
    [][(/\ lastCall'.op \in {"initialize", "fund", "vote", "release_funds",
                             "claim_refund"}
        /\ lastCall'.result # "Ok") =>
          storage' = storage]_vars

C14_Witness ==
    /\ Initialized
    /\ lastCall.op = "vote"
    /\ lastCall.result = "NotABacker"
    /\ valid_index(Project, lastCall.index)
    /\ ~Project.milestones[lastCall.index + 1].is_complete

(***************************************************************************)
(* C15  initialize validation order: the error returned is the first       *)
(* failing check in the order ProjectAlreadyInitialized,                   *)
(* DeadlineMustBeInFuture (deadline <= ledger sequence), GoalMustBePositive*)
(* (goal = 0), MilestoneListEmpty, MilestoneAmountsMismatchGoal;           *)
(* initialize succeeds exactly when none fails, and then stores raised =   *)
(* 0, goal_met = false, every milestone incomplete with an empty vote map, *)
(* and an empty backers map.  The amounts are summed mathematically.       *)
(***************************************************************************)
C15_InitializeValidationOrder ==
    [][lastCall'.op = "initialize" =>
          LET goal == lastCall'.goal
              deadline == lastCall'.deadline
              ms == lastCall'.milestones
              total == ArgumentSum(ms)
              expected ==
                  IF Initialized THEN "ProjectAlreadyInitialized"
                  ELSE IF deadline <= seq THEN "DeadlineMustBeInFuture"
                  ELSE IF goal = U128(0) THEN "GoalMustBePositive"
                  ELSE IF ms = << >> THEN "MilestoneListEmpty"
                  ELSE IF ~NatEq(total, goal) THEN "MilestoneAmountsMismatchGoal"
                  ELSE "Ok"
          IN  /\ lastCall'.result = expected
              /\ lastCall'.result = "Ok" =>
                    /\ Initialized'
                    /\ Project'.goal = goal
                    /\ Project'.deadline = deadline
                    /\ Project'.raised = U128(0)
                    /\ Project'.goal_met = FALSE
                    /\ DOMAIN Project'.backers = {}
                    /\ Len(Project'.milestones) = Len(ms)
                    /\ \A i \in 1..Len(ms) :
                          /\ Project'.milestones[i].amount_to_release = ms[i][2]
                          /\ Project'.milestones[i].title = ms[i][1]
                          /\ Project'.milestones[i].is_complete = FALSE
                          /\ DOMAIN Project'.milestones[i].votes = {}]_vars

(***************************************************************************)
(* C16  Votes are append-only and affirmative: in every state every entry  *)
(* of every milestone's vote map has value true and its key is a key of    *)
(* backers; no step removes or changes an entry; and no step adds an entry *)
(* to a milestone that is complete.                                        *)
(***************************************************************************)
C16_VotesAppendOnly ==
    /\ [](Initialized =>
            \A i \in 1..Len(Project.milestones) :
                \A b \in DOMAIN Project.milestones[i].votes :
                    /\ Project.milestones[i].votes[b] = TRUE
                    /\ b \in DOMAIN Project.backers)
    /\ [][Initialized =>
            \A i \in 1..Len(Project.milestones) :
                /\ \A b \in DOMAIN Project.milestones[i].votes :
                      /\ b \in DOMAIN Project'.milestones[i].votes
                      /\ Project'.milestones[i].votes[b] = Project.milestones[i].votes[b]
                /\ Project.milestones[i].is_complete =>
                      DOMAIN Project'.milestones[i].votes
                        = DOMAIN Project.milestones[i].votes]_vars

\* A backer with no entry on a complete milestone has called vote on it.
C16_Witness ==
    /\ Initialized
    /\ lastCall.op = "vote"
    /\ lastCall.result = "MilestoneAlreadyCompleted"
    /\ valid_index(Project, lastCall.index)
    /\ Project.milestones[lastCall.index + 1].is_complete
    /\ lastCall.backer \in DOMAIN Project.backers
    /\ lastCall.backer \notin DOMAIN Project.milestones[lastCall.index + 1].votes

(***************************************************************************)
(* C17  Funding window and refund window are disjoint: in no reachable     *)
(* state can both a fund call and a claim_refund call succeed.  With       *)
(* goal_met false, at ledger sequence = deadline fund is accepted and      *)
(* claim_refund fails with RefundsNotAvailable, and at ledger sequence >   *)
(* deadline fund fails with DeadlinePassed.                                *)
(***************************************************************************)
C17_WindowsDisjoint ==
    /\ \A b1 \in Backers, b2 \in Backers :
          ~(/\ fund(storage, seq, overflow_checks, b1).result = "Ok"
            /\ claim_refund(storage, seq, b2).result = "Ok")
    /\ (Initialized /\ ~Project.goal_met) =>
          \A b \in Backers :
              /\ seq = Project.deadline =>
                    /\ fund(storage, seq, overflow_checks, b).result = "Ok"
                    /\ claim_refund(storage, seq, b).result = "RefundsNotAvailable"
              /\ seq > Project.deadline =>
                    fund(storage, seq, overflow_checks, b).result = "DeadlinePassed"

C17_Witness ==
    /\ Succeeded("fund")
    /\ seq = Project.deadline
    /\ ~Project.goal_met

(***************************************************************************)
(* C18  Refund and release are mutually exclusive over a whole run: no run *)
(* holds both a successful claim_refund and a successful release_funds;    *)
(* once a refund has succeeded goal_met is never true; and while goal_met  *)
(* is true no claim_refund succeeds.                                       *)
(***************************************************************************)
C18_RefundExcludesRelease ==
    /\ ~(history.refunded /\ history.released)
    /\ history.refunded => (Initialized /\ ~Project.goal_met)
    /\ (Initialized /\ Project.goal_met) =>
          /\ ~Succeeded("claim_refund")
          /\ \A b \in Backers : claim_refund(storage, seq, b).result # "Ok"

C18_Witness ==
    /\ history.refunded
    /\ lastCall.op = "fund"
    /\ lastCall.result = "DeadlinePassed"
    /\ NatLeq(Project.goal, NatAdd(Project.raised, amount_to_fund))

(***************************************************************************)
(* C19  No over-release: in every state the sum of amount_to_release over  *)
(* the complete milestones is at most goal and at most raised, and a       *)
(* milestone is complete only in states where goal_met is true.            *)
(***************************************************************************)
C19_NoOverRelease ==
    Initialized =>
        LET ms == Project.milestones
            released == SumMap([i \in {j \in 1..Len(ms) : ms[j].is_complete} |->
                                  ms[i].amount_to_release])
        IN  /\ NatLeq(released, Project.goal)
            /\ NatLeq(released, Project.raised)
            /\ (\E i \in 1..Len(ms) : ms[i].is_complete) => Project.goal_met

(***************************************************************************)
(* C20  Approval is stable: once goal_met is true no step changes raised   *)
(* or a backer's recorded contribution; an incomplete milestone whose      *)
(* yes-vote weight satisfies weight * 2 > raised keeps satisfying it until *)
(* it is complete; and a release_funds call on such a milestone succeeds,  *)
(* at any ledger sequence.                                                 *)
(***************************************************************************)
C20_ApprovalStable ==
    [][(Initialized /\ Project.goal_met) =>
          /\ Initialized'
          /\ Project'.goal_met
          /\ Project'.raised = Project.raised
          /\ Project'.backers = Project.backers
          /\ \A i \in 1..Len(Project.milestones) :
                (/\ ~Project.milestones[i].is_complete
                 /\ Majority(YesWeight(Project, Project.milestones[i]), Project.raised)) =>
                    /\ \/ Project'.milestones[i].is_complete
                       \/ Majority(YesWeight(Project', Project'.milestones[i]),
                                   Project'.raised)
                    /\ (lastCall'.op = "release_funds" /\ lastCall'.index = i - 1) =>
                          (lastCall'.result = "Ok" /\ Project'.milestones[i].is_complete)]_vars

C20_Witness ==
    /\ Succeeded("release_funds")
    /\ seq > Project.deadline
    /\ Len(Project.milestones) = 2
    /\ \E i \in 1..2 :
          /\ ~Project.milestones[i].is_complete
          /\ Majority(YesWeight(Project, Project.milestones[i]), Project.raised)

====
